---- MODULE Spec2Model ----
(***************************************************************************)
(* Cross-reference tooling of the documentation set: scripts/gen_toc.py,   *)
(* scripts/rewrite_links.py and scripts/check_links.py.                    *)
(*                                                                         *)
(* A string is a sequence of one-character strings.  A file's content is a *)
(* sequence of items in file order: a "line" item is one text line holding *)
(* no markdown link, a "link" item is one link occurrence [text](url) on a *)
(* line of its own (it starts with "[", so it is never a heading).         *)
(***************************************************************************)
EXTENDS Integers, Sequences, FiniteSets, TLC

\* ------------------------------------------------------------------------
\* Characters and Python's str / re character classes
\* ------------------------------------------------------------------------

UpperSeq == <<"A","B","C","D","E","F","G","H","I","J","K","L","M",
              "N","O","P","Q","R","S","T","U","V","W","X","Y","Z","É">>
LowerSeq == <<"a","b","c","d","e","f","g","h","i","j","k","l","m",
              "n","o","p","q","r","s","t","u","v","w","x","y","z","é">>

\* [a-z] and [0-9] of gen_toc.slugify's character class
AsciiLower == {LowerSeq[i] : i \in 1..26}
Digits == {"0","1","2","3","4","5","6","7","8","9"}

\* \s of Python's re on str, and what str.strip() removes
IsSpace(c) == c \in {" ", "\t", "\n", "\r"}

\* \w of Python's re on str: Unicode letters, digits and the underscore
IsWord(c) ==
    \/ c \in Digits
    \/ c = "_"
    \/ \E i \in 1..Len(UpperSeq) : c = UpperSeq[i] \/ c = LowerSeq[i]

\* str.lower() on one character
LowerChar(c) ==
    IF \E i \in 1..Len(UpperSeq) : UpperSeq[i] = c
    THEN LowerSeq[CHOOSE i \in 1..Len(UpperSeq) : UpperSeq[i] = c]
    ELSE c

\* str.lower()
lower(s) == [i \in 1..Len(s) |-> LowerChar(s[i])]

\* str.startswith / str.endswith
startswith(s, p) == Len(s) >= Len(p) /\ SubSeq(s, 1, Len(p)) = p
endswith(s, p) == Len(s) >= Len(p) /\ SubSeq(s, Len(s) - Len(p) + 1, Len(s)) = p

RECURSIVE lstrip(_)
lstrip(s) == IF s # <<>> /\ IsSpace(Head(s)) THEN lstrip(Tail(s)) ELSE s

RECURSIVE rstrip(_)
rstrip(s) ==
    IF s # <<>> /\ IsSpace(s[Len(s)]) THEN rstrip(SubSeq(s, 1, Len(s) - 1)) ELSE s

\* str.strip()
strip(s) == rstrip(lstrip(s))

\* index of the first / last occurrence of character c in s, 0 when absent
FirstIndex(s, c) ==
    IF \E i \in 1..Len(s) : s[i] = c
    THEN CHOOSE i \in 1..Len(s) : s[i] = c /\ \A j \in 1..(i - 1) : s[j] # c
    ELSE 0
LastIndex(s, c) ==
    IF \E i \in 1..Len(s) : s[i] = c
    THEN CHOOSE i \in 1..Len(s) : s[i] = c /\ \A j \in (i + 1)..Len(s) : s[j] # c
    ELSE 0

\* s.split(c): the pieces between occurrences of c
RECURSIVE split(_, _)
split(s, c) ==
    LET i == FirstIndex(s, c) IN
    IF i = 0 THEN <<s>>
    ELSE <<SubSeq(s, 1, i - 1)>> \o split(SubSeq(s, i + 1, Len(s)), c)

\* c.join(parts)
RECURSIVE joinWith(_, _)
joinWith(parts, c) ==
    IF parts = <<>> THEN <<>>
    ELSE IF Len(parts) = 1 THEN parts[1]
    ELSE parts[1] \o <<c>> \o joinWith(Tail(parts), c)

\* ------------------------------------------------------------------------
\* os.path (posixpath)
\* ------------------------------------------------------------------------

\* os.path.basename
basename(p) == SubSeq(p, LastIndex(p, "/") + 1, Len(p))

\* os.path.splitext(p)[0]: the last dot starts the extension unless only
\* dots lie between the last separator and it
splitext_root(p) ==
    LET sepIndex == LastIndex(p, "/")
        dotIndex == LastIndex(p, ".")
    IN IF dotIndex > sepIndex
          /\ \E k \in (sepIndex + 1)..(dotIndex - 1) : p[k] # "."
       THEN SubSeq(p, 1, dotIndex - 1)
       ELSE p

RECURSIVE rstrip_slash(_)
rstrip_slash(s) ==
    IF s # <<>> /\ s[Len(s)] = "/" THEN rstrip_slash(SubSeq(s, 1, Len(s) - 1)) ELSE s

\* str.lstrip('/')
RECURSIVE lstrip_slash(_)
lstrip_slash(s) == IF s # <<>> /\ Head(s) = "/" THEN lstrip_slash(Tail(s)) ELSE s

\* os.path.dirname
dirname(p) ==
    LET head == SubSeq(p, 1, LastIndex(p, "/")) IN
    IF head # <<>> /\ \E k \in 1..Len(head) : head[k] # "/"
    THEN rstrip_slash(head)
    ELSE head

\* os.path.join(a, b)
path_join(a, b) ==
    IF startswith(b, <<"/">>) THEN b
    ELSE IF a = <<>> \/ endswith(a, <<"/">>) THEN a \o b
    ELSE a \o <<"/">> \o b

\* the component loop of os.path.normpath
RECURSIVE norm_comps(_, _, _)
norm_comps(comps, new_comps, initial_slashes) ==
    IF comps = <<>> THEN new_comps
    ELSE LET comp == Head(comps) IN
         IF comp = <<>> \/ comp = <<".">>
         THEN norm_comps(Tail(comps), new_comps, initial_slashes)
         ELSE IF \/ comp # <<".", ".">>
                 \/ (~initial_slashes /\ new_comps = <<>>)
                 \/ (new_comps # <<>> /\ new_comps[Len(new_comps)] = <<".", ".">>)
         THEN norm_comps(Tail(comps), Append(new_comps, comp), initial_slashes)
         ELSE IF new_comps # <<>>
         THEN norm_comps(Tail(comps), SubSeq(new_comps, 1, Len(new_comps) - 1),
                         initial_slashes)
         ELSE norm_comps(Tail(comps), new_comps, initial_slashes)

\* os.path.normpath (the paths of the model never start with two slashes)
normpath(path) ==
    IF path = <<>> THEN <<".">>
    ELSE LET initial_slashes == startswith(path, <<"/">>)
             joined == joinWith(norm_comps(split(path, "/"), <<>>, initial_slashes), "/")
             res == IF initial_slashes THEN <<"/">> \o joined ELSE joined
         IN IF res = <<>> THEN <<".">> ELSE res

\* ------------------------------------------------------------------------
\* The file system.  Paths are relative to the working directory, which is
\* also check_links' start_path; nothing of the project lives outside it.
\* ------------------------------------------------------------------------

P_a == <<"a", ".", "m", "d">>
P_b == <<"d", "/", "b", ".", "m", "d">>
P_t == <<"0", "3", "-", "d", "e", "p", ".", "m", "d">>
P_n == <<"n", ".", "t", "x", "t">>
P_s == <<"s", "c", "r", "i", "p", "t", "s", "/", "s", ".", "m", "d">>
P_c == <<"C", "H", "A", "N", "G", "E", "L", "O", "G", ".", "m", "d">>
P_k == <<"1", "_", "K", ".", "m", "d">>
P_gone == <<"g", ".", "m", "d">>

\* every path a file of the model can live at (P_gone never holds a file)
FilePaths == {P_a, P_b, P_t, P_k, P_n, P_s, P_c}

NoFile == [absent |-> TRUE]

VARIABLES
    fs,            \* FilePaths -> NoFile or [items, dec]: dec = FALSE when
                   \* reading past the items raises UnicodeDecodeError
    rw_pc,         \* rewrite_links.py: "idle", "start", "sub", "done", "error"
    rw_filename,   \* sys.argv[1]
    rw_content,    \* the items of the file read by __main__
    rw_pos,        \* number of items link_pattern.sub has consumed
    rw_out,        \* the items of the text built so far
    ck_pc,         \* check_links.py: "idle", "walk", "main", "exit"
    ck_stack,      \* os.walk: directories still to be visited
    ck_dirpath,    \* os.walk: the directory being visited
    ck_left,       \* file names of ck_dirpath not yet handled
    broken_links,  \* check_links' broken_links list
    ck_scanned,    \* file paths whose links were checked (bookkeeping)
    ck_exit,       \* exit status of check_links.py, -1 while running
    toc_pc,        \* gen_toc.py: "idle", "loop", "done", "crashed", "usage"
    toc_files,     \* sys.argv[1:]
    toc_i,         \* number of arguments the loop of main has handled
    toc_lines,     \* main's toc_lines after the two title lines
    OUTFILE        \* the table of contents written, or NotWritten

vars == <<fs, rw_pc, rw_filename, rw_content, rw_pos, rw_out,
          ck_pc, ck_stack, ck_dirpath, ck_left, broken_links, ck_scanned, ck_exit,
          toc_pc, toc_files, toc_i, toc_lines, OUTFILE>>

rw_vars == <<rw_pc, rw_filename, rw_content, rw_pos, rw_out>>
ck_vars == <<ck_pc, ck_stack, ck_dirpath, ck_left, broken_links, ck_scanned, ck_exit>>
toc_vars == <<toc_pc, toc_files, toc_i, toc_lines, OUTFILE>>

IsFile(p) == p \in FilePaths /\ fs[p] # NoFile

\* the components cur name a directory: the working directory itself, or a
\* proper prefix of the path of some file
IsDirAt(cur) ==
    \/ cur = <<>>
    \/ \E p \in FilePaths :
          /\ fs[p] # NoFile
          /\ LET pc == split(p, "/") IN
             Len(pc) > Len(cur) /\ SubSeq(pc, 1, Len(cur)) = cur

NotFound == [kind |-> "none", path |-> <<>>]

\* the kernel's path walk, one component at a time: cur is the position
\* inside the working directory, up > 0 a position that many levels above it
RECURSIVE os_walk_path(_, _, _)
os_walk_path(comps, cur, up) ==
    IF comps = <<>>
    THEN IF up > 0 \/ IsDirAt(cur) THEN [kind |-> "dir", path |-> joinWith(cur, "/")]
         ELSE IF IsFile(joinWith(cur, "/"))
         THEN [kind |-> "file", path |-> joinWith(cur, "/")]
         ELSE NotFound
    ELSE LET comp == Head(comps) IN
         IF ~(up > 0 \/ IsDirAt(cur)) THEN NotFound
         ELSE IF comp = <<>> \/ comp = <<".">>
         THEN os_walk_path(Tail(comps), cur, up)
         ELSE IF comp = <<".", ".">>
         THEN IF up > 0 \/ cur = <<>>
              THEN os_walk_path(Tail(comps), <<>>, up + 1)
              ELSE os_walk_path(Tail(comps), SubSeq(cur, 1, Len(cur) - 1), 0)
         ELSE IF up > 0 THEN NotFound
         ELSE os_walk_path(Tail(comps), Append(cur, comp), 0)

\* what a path names: a file, a directory or nothing.  An absolute path
\* names nothing: the project does not live at the file system root.
os_stat(path) ==
    IF path = <<>> \/ startswith(path, <<"/">>) THEN NotFound
    ELSE os_walk_path(split(path, "/"), <<>>, 0)

\* os.path.exists / pathlib.Path.exists
exists(path) == os_stat(path).kind # "none"

\* ------------------------------------------------------------------------
\* gen_toc.py: slugify, HEADING_PATTERN, parse_headings
\* ------------------------------------------------------------------------

\* re.sub(r"[^a-z0-9\s-]", "", text)
IsSlugChar(c) == c \in AsciiLower \/ c \in Digits \/ IsSpace(c) \/ c = "-"
RemoveNonSlug(text) == SelectSeq(text, IsSlugChar)

\* re.sub(r"[\s-]+", "-", text): every maximal run becomes one hyphen
IsSepChar(c) == IsSpace(c) \/ c = "-"
RECURSIVE CollapseRuns(_)
CollapseRuns(text) ==
    IF text = <<>> THEN <<>>
    ELSE IF IsSepChar(Head(text))
    THEN IF Len(text) >= 2 /\ IsSepChar(text[2])
         THEN CollapseRuns(Tail(text))
         ELSE <<"-">> \o CollapseRuns(Tail(text))
    ELSE <<Head(text)>> \o CollapseRuns(Tail(text))

slugify(text) == CollapseRuns(RemoveNonSlug(lower(strip(text))))

\* number of leading '#' characters of a line
RECURSIVE LeadingHashes(_)
LeadingHashes(line) ==
    IF line # <<>> /\ Head(line) = "#" THEN 1 + LeadingHashes(Tail(line)) ELSE 0

NoHeading == [level |-> 0, title |-> <<>>]

\* HEADING_PATTERN.match(line) followed by (len(hashes), title.strip()).
\* ^(#{1,6})\s+(.+?)\s*$ : one to six hashes, then at least one whitespace
\* character, then at least one character of title.  When only whitespace
\* follows the hashes, \s+ gives back its last character to (.+?), so two or
\* more whitespace characters still match, with a title that strips to "".
HeadingOf(line) ==
    LET k == LeadingHashes(line)
        rest == SubSeq(line, k + 1, Len(line))
    IN IF k < 1 \/ k > 6 \/ rest = <<>> THEN NoHeading
       ELSE IF ~IsSpace(rest[1]) THEN NoHeading
       ELSE IF strip(rest) # <<>> THEN [level |-> k, title |-> strip(rest)]
       ELSE IF Len(rest) >= 2 THEN [level |-> k, title |-> <<>>]
       ELSE NoHeading

\* the text of an item as the line scanners see it: a link item is a line
\* that begins with "["
ItemLine(item) == IF item.t = "line" THEN item.s ELSE <<"[">>

\* parse_headings: the (level, title) of every matching line, in file order
RECURSIVE parse_headings(_)
parse_headings(items) ==
    IF items = <<>> THEN <<>>
    ELSE LET h == HeadingOf(ItemLine(Head(items))) IN
         IF h = NoHeading THEN parse_headings(Tail(items))
         ELSE <<h>> \o parse_headings(Tail(items))

\* ------------------------------------------------------------------------
\* rewrite_links.py
\* ------------------------------------------------------------------------

S_http == <<"h", "t", "t", "p">>
S_https == <<"h", "t", "t", "p", "s">>
S_hash == <<"#">>
S_mailto == <<"m", "a", "i", "l", "t", "o", ":">>
S_md == <<".", "m", "d">>

Link(text, url) == [t |-> "link", text |-> text, url |-> url]
Line(s) == [t |-> "line", s |-> s]

\* link_pattern of rewrite_links, \[([^\]]+)\]\(([^)]+)\): both groups are
\* non-empty, the text holds no "]" and the url no ")"
RwLinkMatches(item) ==
    /\ item.t = "link"
    /\ item.text # <<>> /\ \A i \in 1..Len(item.text) : item.text[i] # "]"
    /\ item.url # <<>> /\ \A i \in 1..Len(item.url) : item.url[i] # ")"

\* mutant: the test forgets external links
RwIsIgnored_NoHttp(url) == startswith(url, S_hash) \/ startswith(url, S_mailto)

\* the test for external links, anchors and mailto
RwIsIgnored(url) ==
    startswith(url, S_http) \/ startswith(url, S_hash) \/ startswith(url, S_mailto)

\* header.lower().replace(' ', '-')
SpacesToHyphens(s) == [i \in 1..Len(s) |-> IF s[i] = " " THEN "-" ELSE s[i]]

\* re.sub(r'[^\w-]', '', anchor)
IsWordOrHyphen(c) == IsWord(c) \/ c = "-"

\* the anchor of a line that starts with '# '
H1Anchor(line) ==
    LET header == strip(SubSeq(line, 3, Len(line)))
    IN SelectSeq(SpacesToHyphens(lower(header)), IsWordOrHyphen)

NoAnchor == [found |-> FALSE, anchor |-> <<>>]

\* the loop over the lines of the target: the first line that starts with
\* '# ' decides; running off the items (end of file, or the decoding error
\* of a file with dec = FALSE, which is caught) finds nothing
RECURSIVE ScanForH1(_)
ScanForH1(items) ==
    IF items = <<>> THEN NoAnchor
    ELSE IF startswith(ItemLine(Head(items)), <<"#", " ">>)
    THEN [found |-> TRUE, anchor |-> H1Anchor(ItemLine(Head(items)))]
    ELSE ScanForH1(Tail(items))

\* number of leading digits
RECURSIVE LeadingDigits(_)
LeadingDigits(s) ==
    IF s # <<>> /\ Head(s) \in Digits THEN 1 + LeadingDigits(Tail(s)) ELSE 0

\* re.sub(r'^\d+[-_]', '', anchor)
StripNumericPrefix(anchor) ==
    LET n == LeadingDigits(anchor) IN
    IF n >= 1 /\ Len(anchor) > n /\ anchor[n + 1] \in {"-", "_"}
    THEN SubSeq(anchor, n + 2, Len(anchor))
    ELSE anchor

\* mutant: the fallback is slugified like a heading
FallbackAnchor_Slugified(url) == slugify(StripNumericPrefix(splitext_root(basename(url))))

\* the fallback: the file name without extension and numeric prefix
FallbackAnchor(url) == StripNumericPrefix(splitext_root(basename(url)))

\* the anchor for a url that ends with '.md'.  open() of a directory raises,
\* which the handler catches like a decoding error.
AnchorFor(url, filename) ==
    LET target_path == path_join(dirname(filename), url)
        st == os_stat(target_path)
        h1 == IF st.kind = "file" THEN ScanForH1(fs[st.path].items) ELSE NoAnchor
    IN IF st.kind # "none" /\ h1.found THEN h1.anchor ELSE FallbackAnchor(url)

\* mutant: the extension of the target is not looked at
replace_link_AnyExtension(item, filename) ==
    IF RwIsIgnored(item.url) THEN item
    ELSE Link(item.text, <<"#">> \o AnchorFor(item.url, filename))

\* replace_link: the replacement for one match
replace_link(item, filename) ==
    IF RwIsIgnored(item.url) THEN item
    ELSE IF endswith(item.url, S_md)
    THEN Link(item.text, <<"#">> \o AnchorFor(item.url, filename))
    ELSE item

\* __main__: open(filename) and f.read() succeed
RwRead ==
    /\ rw_pc = "start"
    /\ os_stat(rw_filename).kind = "file"
    /\ fs[os_stat(rw_filename).path].dec
    /\ rw_content' = fs[os_stat(rw_filename).path].items
    /\ rw_pc' = "sub"
    /\ UNCHANGED <<fs, rw_filename, rw_pos, rw_out, ck_vars, toc_vars>>

\* __main__: the file is missing, a directory or undecodable: exit status 1
RwReadError ==
    /\ rw_pc = "start"
    /\ ~(os_stat(rw_filename).kind = "file" /\ fs[os_stat(rw_filename).path].dec)
    /\ rw_pc' = "error"
    /\ UNCHANGED <<fs, rw_filename, rw_content, rw_pos, rw_out, ck_vars, toc_vars>>

\* link_pattern.sub: text that is no match is copied
RwCopyText ==
    /\ rw_pc = "sub"
    /\ rw_pos < Len(rw_content)
    /\ ~RwLinkMatches(rw_content[rw_pos + 1])
    /\ rw_out' = Append(rw_out, rw_content[rw_pos + 1])
    /\ rw_pos' = rw_pos + 1
    /\ UNCHANGED <<fs, rw_pc, rw_filename, rw_content, ck_vars, toc_vars>>

\* link_pattern.sub: a match is replaced by what replace_link returns
RwReplaceLink ==
    /\ rw_pc = "sub"
    /\ rw_pos < Len(rw_content)
    /\ RwLinkMatches(rw_content[rw_pos + 1])
    /\ rw_out' = Append(rw_out, replace_link(rw_content[rw_pos + 1], rw_filename))
    /\ rw_pos' = rw_pos + 1
    /\ UNCHANGED <<fs, rw_pc, rw_filename, rw_content, ck_vars, toc_vars>>

\* __main__: print(new_content, end='')
RwPrint ==
    /\ rw_pc = "sub"
    /\ rw_pos = Len(rw_content)
    /\ rw_pc' = "done"
    /\ UNCHANGED <<fs, rw_filename, rw_content, rw_pos, rw_out, ck_vars, toc_vars>>

\* ------------------------------------------------------------------------
\* check_links.py
\* ------------------------------------------------------------------------

start_path == <<".">>

ignored_files ==
    { <<"M","C","P","-","I","E","E","E","-","4","2","0","1","0","-","A","D",".","m","d">>,
      <<"C","H","A","N","G","E","L","O","G",".","m","d">>,
      <<"C","O","N","T","R","I","B","U","T","I","N","G",".","m","d">> }

ignored_dirs ==
    { <<".","g","i","t">>, <<".","g","i","t","h","u","b">>,
      <<"n","o","d","e","_","m","o","d","u","l","e","s">>,
      <<"s","c","r","i","p","t","s">>, <<"b","u","i","l","d">>, <<"d","i","s","t">> }

\* the components of a directory path handed out by os.walk
DirComps(dirpath) == norm_comps(split(dirpath, "/"), <<>>, FALSE)

\* os.walk: the file names and the sub-directory names of one directory
FileNamesIn(dirpath) ==
    { basename(p) : p \in { q \in FilePaths :
          IsFile(q) /\ split(q, "/") = DirComps(dirpath) \o <<basename(q)>> } }
DirNamesIn(dirpath) ==
    { split(p, "/")[Len(DirComps(dirpath)) + 1] : p \in { q \in FilePaths :
          /\ IsFile(q)
          /\ Len(split(q, "/")) > Len(DirComps(dirpath)) + 1
          /\ SubSeq(split(q, "/"), 1, Len(DirComps(dirpath))) = DirComps(dirpath) } }

\* every order in which a listing can enumerate the set S
Orders(S) ==
    { o \in [1..Cardinality(S) -> S] : \A i, j \in 1..Cardinality(S) : o[i] = o[j] => i = j }

\* link_pattern.findall(content): the target of every [..](..) in file order
RECURSIVE CkLinks(_)
CkLinks(items) ==
    IF items = <<>> THEN <<>>
    ELSE IF Head(items).t = "link" THEN <<Head(items).url>> \o CkLinks(Tail(items))
    ELSE CkLinks(Tail(items))

\* the test for external links and anchors
CkIsIgnored(link) ==
    \/ startswith(link, S_http) \/ startswith(link, S_https)
    \/ startswith(link, S_hash) \/ startswith(link, S_mailto)

\* link.split('#')[0]
LinkPath(link) == split(link, "#")[1]

\* mutant: a rooted target is resolved against the directory of the file
CkTargetPath_FileDir(dirpath, link_path) ==
    normpath(path_join(dirpath, lstrip_slash(link_path)))

\* the resolved, normalised target of a relative link
CkTargetPath(dirpath, link_path) ==
    normpath(IF startswith(link_path, <<"/">>)
             THEN path_join(start_path, lstrip_slash(link_path))
             ELSE path_join(dirpath, link_path))

\* the body of the loop over the links of one file
RECURSIVE CkScanLinks(_, _, _, _)
CkScanLinks(links, dirpath, filepath, broken) ==
    IF links = <<>> THEN broken
    ELSE LET link == Head(links)
             next == IF CkIsIgnored(link) THEN broken
                     ELSE IF LinkPath(link) = <<>> THEN broken
                     ELSE IF ~exists(CkTargetPath(dirpath, LinkPath(link)))
                     THEN Append(broken, <<filepath, link>>)
                     ELSE broken
         IN CkScanLinks(Tail(links), dirpath, filepath, next)

\* os.walk hands out the next directory, its sub-directories filtered
CkEnterDir ==
    /\ ck_pc = "walk"
    /\ ck_left = {}
    /\ ck_stack # <<>>
    /\ ck_dirpath' = Head(ck_stack)
    /\ ck_left' = FileNamesIn(Head(ck_stack))
    /\ \E o \in Orders({d \in DirNamesIn(Head(ck_stack)) : d \notin ignored_dirs}) :
          ck_stack' = [i \in 1..Len(o) |-> path_join(Head(ck_stack), o[i])]
                      \o Tail(ck_stack)
    /\ UNCHANGED <<fs, ck_pc, broken_links, ck_scanned, ck_exit, rw_vars, toc_vars>>

\* a file that is no .md file or is in ignored_files is passed over
CkSkipFile ==
    /\ ck_pc = "walk"
    /\ \E filename \in ck_left :
          /\ ~endswith(filename, S_md) \/ filename \in ignored_files
          /\ ck_left' = ck_left \ {filename}
    /\ UNCHANGED <<fs, ck_pc, ck_stack, ck_dirpath, broken_links, ck_scanned, ck_exit,
                   rw_vars, toc_vars>>

\* mutant: the decoding error is not caught and ends the run
CkUnreadable_Abort ==
    /\ ck_pc = "walk"
    /\ \E filename \in ck_left :
          /\ endswith(filename, S_md) /\ filename \notin ignored_files
          /\ ~fs[normpath(path_join(ck_dirpath, filename))].dec
    /\ ck_pc' = "exit"
    /\ ck_exit' = 1
    /\ UNCHANGED <<fs, ck_stack, ck_dirpath, ck_left, broken_links, ck_scanned,
                   rw_vars, toc_vars>>

\* UnicodeDecodeError: a warning, and on to the next file
CkUnreadable ==
    /\ ck_pc = "walk"
    /\ \E filename \in ck_left :
          /\ endswith(filename, S_md) /\ filename \notin ignored_files
          /\ ~fs[normpath(path_join(ck_dirpath, filename))].dec
          /\ ck_left' = ck_left \ {filename}
    /\ UNCHANGED <<fs, ck_pc, ck_stack, ck_dirpath, broken_links, ck_scanned, ck_exit,
                   rw_vars, toc_vars>>

\* one file is read and every link of it is checked
CkScanFile ==
    /\ ck_pc = "walk"
    /\ \E filename \in ck_left :
          LET filepath == path_join(ck_dirpath, filename)
              file == fs[normpath(filepath)]
          IN /\ endswith(filename, S_md) /\ filename \notin ignored_files
             /\ file.dec
             /\ broken_links' =
                    CkScanLinks(CkLinks(file.items), ck_dirpath, filepath, broken_links)
             /\ ck_scanned' = ck_scanned \cup {normpath(filepath)}
             /\ ck_left' = ck_left \ {filename}
    /\ UNCHANGED <<fs, ck_pc, ck_stack, ck_dirpath, ck_exit, rw_vars, toc_vars>>

\* check_links returns broken_links once os.walk is exhausted
CkReturn ==
    /\ ck_pc = "walk"
    /\ ck_left = {}
    /\ ck_stack = <<>>
    /\ ck_pc' = "main"
    /\ UNCHANGED <<fs, ck_stack, ck_dirpath, ck_left, broken_links, ck_scanned, ck_exit,
                   rw_vars, toc_vars>>

\* __main__: the broken links are printed and the status is 1
CkExitBroken ==
    /\ ck_pc = "main"
    /\ broken_links # <<>>
    /\ ck_exit' = 1
    /\ ck_pc' = "exit"
    /\ UNCHANGED <<fs, ck_stack, ck_dirpath, ck_left, broken_links, ck_scanned,
                   rw_vars, toc_vars>>

\* __main__: "No broken links found." and the status is 0
CkExitOk ==
    /\ ck_pc = "main"
    /\ broken_links = <<>>
    /\ ck_exit' = 0
    /\ ck_pc' = "exit"
    /\ UNCHANGED <<fs, ck_stack, ck_dirpath, ck_left, broken_links, ck_scanned,
                   rw_vars, toc_vars>>

\* ------------------------------------------------------------------------
\* gen_toc.py: main
\* ------------------------------------------------------------------------

NotWritten == <<"(not written)">>

\* the deepest heading level that gets a line
TocMaxLevel == 3

\* mutant: the indentation is not reduced by one level
Indent_PerLevel(level) == [i \in 1..(2 * level) |-> " "]

\* "  " * (level - 1)
Indent(level) == [i \in 1..(2 * (level - 1)) |-> " "]

\* one entry of toc_lines; arg records which argument produced it
TocEntry(arg, level, title) ==
    [arg |-> arg, indent |-> Indent(level), title |-> title, anchor |-> slugify(title)]

\* the loop over the headings of one file
RECURSIVE TocEntries(_, _)
TocEntries(headings, arg) ==
    IF headings = <<>> THEN <<>>
    ELSE IF Head(headings).level > TocMaxLevel THEN TocEntries(Tail(headings), arg)
    ELSE <<TocEntry(arg, Head(headings).level, Head(headings).title)>>
         \o TocEntries(Tail(headings), arg)

\* f"{indent}- [{title}](#{anchor})"
TocLineText(e) ==
    e.indent \o <<"-", " ", "[">> \o e.title \o <<"]", "(", "#">> \o e.anchor \o <<")">>

\* main: no arguments: "No input files provided", status 1
TocNoFiles ==
    /\ toc_pc = "start"
    /\ toc_files = <<>>
    /\ toc_pc' = "usage"
    /\ UNCHANGED <<fs, toc_files, toc_i, toc_lines, OUTFILE, rw_vars, ck_vars>>

\* main: the loop starts
TocBegin ==
    /\ toc_pc = "start"
    /\ toc_files # <<>>
    /\ toc_pc' = "loop"
    /\ UNCHANGED <<fs, toc_files, toc_i, toc_lines, OUTFILE, rw_vars, ck_vars>>

\* a missing file: a warning, and on to the next argument
TocSkipMissing ==
    /\ toc_pc = "loop"
    /\ toc_i < Len(toc_files)
    /\ ~exists(toc_files[toc_i + 1])
    /\ toc_i' = toc_i + 1
    /\ UNCHANGED <<fs, toc_pc, toc_files, toc_lines, OUTFILE, rw_vars, ck_vars>>

\* the headings of one file are parsed and their lines appended
TocFile ==
    /\ toc_pc = "loop"
    /\ toc_i < Len(toc_files)
    /\ LET st == os_stat(toc_files[toc_i + 1]) IN
       /\ st.kind = "file"
       /\ fs[st.path].dec
       /\ toc_lines' = toc_lines \o TocEntries(parse_headings(fs[st.path].items), toc_i + 1)
    /\ toc_i' = toc_i + 1
    /\ UNCHANGED <<fs, toc_pc, toc_files, OUTFILE, rw_vars, ck_vars>>

\* parse_headings raises (a directory, an undecodable file): nothing catches
\* it, the process ends with a traceback and OUTFILE is not written
TocCrash ==
    /\ toc_pc = "loop"
    /\ toc_i < Len(toc_files)
    /\ LET st == os_stat(toc_files[toc_i + 1]) IN
       \/ st.kind = "dir"
       \/ st.kind = "file" /\ ~fs[st.path].dec
    /\ toc_pc' = "crashed"
    /\ UNCHANGED <<fs, toc_files, toc_i, toc_lines, OUTFILE, rw_vars, ck_vars>>

\* OUTFILE.write_text: the lines between the title and the page break
TocWrite ==
    /\ toc_pc = "loop"
    /\ toc_i = Len(toc_files)
    /\ OUTFILE' = [i \in 1..Len(toc_lines) |-> TocLineText(toc_lines[i])]
    /\ toc_pc' = "done"
    /\ UNCHANGED <<fs, toc_files, toc_i, toc_lines, rw_vars, ck_vars>>

\* ------------------------------------------------------------------------
\* The inputs of the runs
\* ------------------------------------------------------------------------

\* most items of a document that is rewritten or checked
MaxLinks == 2
\* most lines of the document whose headings vary
MaxLines == 2
\* most arguments of gen_toc.py
MaxArgs == 2

SeqUpTo(S, n) == UNION {[1..k -> S] : k \in 0..n}

T_see == <<"S", "e", "e", " ", "I", "t">>

U_http == <<"h", "t", "t", "p", ":", "/", "/", "h", "/", "a", ".", "m", "d">>
U_anchor == <<"#", "s">>
U_mailto == <<"m", "a", "i", "l", "t", "o", ":", "m">>
U_t == P_t
U_k == P_k
U_tfrag == P_t \o <<"#", "t">>
U_n == P_n
U_gonetxt == <<"g", ".", "t", "x", "t">>
U_root == <<"/">> \o P_t
U_up == <<".", ".", "/">> \o P_t
U_empty == <<>>
U_dotdot == <<"x", "/", ".", ".", "/", "b", ".", "m", "d">>

Urls ==
    {U_http, U_anchor, U_mailto, U_t, U_k, U_tfrag, U_n, U_gonetxt, U_root, U_up, U_empty}

L_text == <<"t", "e", "x", "t">>
L_h1 == <<"#", " ", "S", "e", "t", " ", "U", "p">>
L_h1amp == <<"#", " ", "A", " ", "&", " ", "B">>
L_h1us == <<"#", " ", "a", "_", "b">>
L_h1punct == <<"#", " ", "!", "!">>
L_h1tab == <<"#", "\t", "É">>
L_h2 == <<"#", "#", " ", "S", "e", "t", " ", "U", "p">>
L_h3 == <<"#", "#", "#", " ", "A", " ", "&", " ", "B">>
L_h4 == <<"#", "#", "#", "#", " ", "D", "e", "e", "p">>

\* the items of a document that is rewritten or checked
DocItems ==
    {Link(T_see, u) : u \in Urls} \cup {Link(<<>>, U_t), Line(L_text)}

\* the lines of a document whose headings vary
HeadingLines == {L_text, L_h1, L_h1punct, L_h1tab, L_h2, L_h3, L_h4}

File(items) == [items |-> items, dec |-> TRUE]
Undecodable(items) == [items |-> items, dec |-> FALSE]

\* what 03-dep.md can be when links to it are rewritten
TargetFiles ==
    { NoFile, File(<<>>), File(<<Line(L_h1)>>), File(<<Line(L_text), Line(L_h1amp)>>),
      File(<<Line(L_h2), Line(L_h1)>>), File(<<Line(L_h2)>>), File(<<Line(L_h1us)>>),
      File(<<Line(L_h1punct)>>), File(<<Line(L_h1tab)>>),
      Undecodable(<<>>), Undecodable(<<Line(L_h1)>>) }

RwIdle ==
    /\ rw_pc = "idle" /\ rw_filename = <<>> /\ rw_content = <<>>
    /\ rw_pos = 0 /\ rw_out = <<>>
CkIdle ==
    /\ ck_pc = "idle" /\ ck_stack = <<>> /\ ck_dirpath = <<>> /\ ck_left = {}
    /\ broken_links = <<>> /\ ck_scanned = {} /\ ck_exit = -1
TocIdle ==
    /\ toc_pc = "idle" /\ toc_files = <<>> /\ toc_i = 0 /\ toc_lines = <<>>
    /\ OUTFILE = NotWritten

\* python3 scripts/rewrite_links.py <filename>
InitRewrite ==
    /\ rw_filename \in {P_a, P_b, P_gone}
    /\ \E src \in {File(c) : c \in SeqUpTo(DocItems, MaxLinks)} \cup {Undecodable(<<>>)},
          tgt \in TargetFiles :
          fs = [p \in FilePaths |->
                   IF p = rw_filename THEN src
                   ELSE IF p = P_t THEN tgt
                   ELSE IF p \in {P_n, P_k} THEN File(<<Line(L_text)>>)
                   ELSE NoFile]
    /\ rw_pc = "start" /\ rw_content = <<>> /\ rw_pos = 0 /\ rw_out = <<>>
    /\ CkIdle /\ TocIdle

NextRewrite == RwRead \/ RwReadError \/ RwCopyText \/ RwReplaceLink \/ RwPrint

SpecRewrite == InitRewrite /\ [][NextRewrite]_vars

\* what d/b.md can be when the links are checked
CheckedSubdirFiles ==
    { NoFile, File(<<Link(T_see, U_up)>>), File(<<Link(T_see, U_t), Link(T_see, U_root)>>),
      File(<<Link(T_see, U_dotdot)>>), Undecodable(<<>>) }

\* python3 scripts/check_links.py, run in the project root
InitCheck ==
    /\ \E a \in {File(c) : c \in SeqUpTo(DocItems, MaxLinks)} \cup {Undecodable(<<>>)},
          b \in CheckedSubdirFiles,
          t \in {NoFile, File(<<Line(L_h1)>>)} :
          fs = [p \in FilePaths |->
                   IF p = P_a THEN a
                   ELSE IF p = P_b THEN b
                   ELSE IF p = P_t THEN t
                   ELSE IF p \in {P_n, P_k} THEN File(<<Line(L_text)>>)
                   ELSE File(<<Link(T_see, U_gonetxt)>>)]
    /\ ck_pc = "walk" /\ ck_stack = <<start_path>> /\ ck_dirpath = <<>> /\ ck_left = {}
    /\ broken_links = <<>> /\ ck_scanned = {} /\ ck_exit = -1
    /\ RwIdle /\ TocIdle

NextCheck ==
    \/ CkEnterDir \/ CkSkipFile \/ CkUnreadable \/ CkScanFile
    \/ CkReturn \/ CkExitBroken \/ CkExitOk

SpecCheck == InitCheck /\ [][NextCheck]_vars

\* what a.md can be when the table of contents is generated
TocFirstFiles == {File(<<Line(L_h1), Line(L_h2)>>), File(<<Line(L_h4)>>), Undecodable(<<>>)}

\* python3 scripts/gen_toc.py <section.md> ...
InitToc ==
    /\ toc_files \in SeqUpTo({P_a, P_t, P_gone}, MaxArgs)
    /\ \E a \in TocFirstFiles, t \in {File(c) : c \in SeqUpTo({Line(l) : l \in HeadingLines}, MaxLines)} :
          fs = [p \in FilePaths |->
                   IF p = P_a THEN a ELSE IF p = P_t THEN t ELSE NoFile]
    /\ toc_pc = "start" /\ toc_i = 0 /\ toc_lines = <<>> /\ OUTFILE = NotWritten
    /\ RwIdle /\ CkIdle

NextToc == TocNoFiles \/ TocBegin \/ TocSkipMissing \/ TocFile \/ TocCrash \/ TocWrite

SpecToc == InitToc /\ [][NextToc]_vars

\* ------------------------------------------------------------------------
\* Properties of rewrite_links.py (under SpecRewrite)
\* ------------------------------------------------------------------------

\* the links link_pattern.sub has replaced so far
RwDone == {i \in 1..rw_pos : RwLinkMatches(rw_content[i])}

\* a relative-file link: not external, not an anchor, not mailto
IsRelativeFileLink(url) ==
    /\ ~startswith(url, S_http) /\ ~startswith(url, S_hash) /\ ~startswith(url, S_mailto)
    /\ split(url, "#")[1] # <<>>

\* what a target string names, resolved against the directory of the document
RwTarget(url) == os_stat(path_join(dirname(rw_filename), url))

\* the file name with ".md" and a leading run of digits plus one separator
\* removed (a name made of dots and "md" alone has no extension to remove)
NameSlug(url) ==
    LET name == basename(url)
        stem == IF endswith(name, S_md) /\ \E j \in 1..(Len(name) - 3) : name[j] # "."
                THEN SubSeq(name, 1, Len(name) - 3)
                ELSE name
        n == CHOOSE k \in 0..Len(stem) :
                /\ \A j \in 1..k : stem[j] \in Digits
                /\ (k < Len(stem) => stem[k + 1] \notin Digits)
    IN IF n > 0 /\ n < Len(stem) /\ stem[n + 1] \in {"-", "_"}
       THEN SubSeq(stem, n + 2, Len(stem))
       ELSE stem

\* C1 as stated: a relative-file link whose target does not exist on disk is
\* left unchanged by the rewriter.
C1_UnresolvedUntouched ==
    \A i \in RwDone :
        (IsRelativeFileLink(rw_content[i].url) /\ RwTarget(rw_content[i].url).kind = "none")
            => rw_out[i] = rw_content[i]

\* C1 amended: a relative-file link whose target does not exist is left
\* unchanged when the target string does not end in ".md", and is rewritten
\* to the anchor derived from the file name when it does.
C1_UnresolvedByExtension ==
    \A i \in RwDone :
        (IsRelativeFileLink(rw_content[i].url) /\ RwTarget(rw_content[i].url).kind = "none")
            => IF endswith(rw_content[i].url, S_md)
               THEN rw_out[i] = Link(rw_content[i].text, <<"#">> \o NameSlug(rw_content[i].url))
               ELSE rw_out[i] = rw_content[i]

\* C1 witness: both a missing ".md" target and a missing other target have
\* been passed through the rewriter.
C1_Witness ==
    /\ \E i \in RwDone : rw_content[i].url = U_gonetxt
    /\ \E i \in RwDone :
          /\ rw_content[i].url = U_t /\ RwTarget(U_t).kind = "none"
          /\ rw_out[i].url = <<"#", "d", "e", "p">>

\* the first level-1 heading HEADING_PATTERN finds in a file, if any
FirstH1(items) ==
    LET hs == parse_headings(items)
        ks == {k \in 1..Len(hs) : hs[k].level = 1}
    IN IF ks = {} THEN NoHeading ELSE hs[CHOOSE k \in ks : \A j \in ks : k <= j]

\* C3: the anchor written for a link to a document with a level-1 heading is
\* the slug the table of contents gives that document's first level-1
\* heading.
C3_AnchorsAgree ==
    \A i \in RwDone :
        LET url == rw_content[i].url
            st == RwTarget(url)
        IN (/\ IsRelativeFileLink(url) /\ endswith(url, S_md)
            /\ st.kind = "file" /\ fs[st.path].dec
            /\ FirstH1(fs[st.path].items) # NoHeading)
           => rw_out[i].url = <<"#">> \o slugify(FirstH1(fs[st.path].items).title)

\* C5: every relative-file link whose path component (the target up to the
\* first '#') names an existing file is replaced by an anchor link with the
\* same text, a fragment suffix notwithstanding.
C5_ResolvableRewritten ==
    \A i \in RwDone :
        LET url == rw_content[i].url IN
        (IsRelativeFileLink(url) /\ RwTarget(split(url, "#")[1]).kind = "file")
            => /\ rw_out[i].text = rw_content[i].text
               /\ startswith(rw_out[i].url, S_hash)

\* C6: the output differs from the input only in the targets of links: text
\* outside links is copied, every link keeps its display text, and links to
\* http, '#' and mailto: targets are identical in input and output.
C6_Frame ==
    /\ Len(rw_out) = rw_pos
    /\ \A i \in 1..rw_pos :
          LET item == rw_content[i] IN
          /\ item.t = "line" => rw_out[i] = item
          /\ item.t = "link" => /\ rw_out[i].t = "link"
                                /\ rw_out[i].text = item.text
          /\ (/\ item.t = "link"
              /\ \/ startswith(item.url, S_http)
                 \/ startswith(item.url, S_hash)
                 \/ startswith(item.url, S_mailto)) => rw_out[i] = item

\* C6 witness: a finished run that copied text, kept an http link to a .md
\* page, and rewrote another link.
C6_Witness ==
    /\ rw_pc = "done"
    /\ \E i \in 1..rw_pos : rw_content[i] = Link(T_see, U_http)
    /\ \E i \in 1..rw_pos : rw_out[i] # rw_content[i]

\* the scan of the target ends, at the end of the file or with an error,
\* before a line that starts with '# ' is read
NoH1Read(st) ==
    \/ st.kind = "dir"
    \/ /\ st.kind = "file"
       /\ \A k \in 1..Len(fs[st.path].items) :
             ~startswith(ItemLine(fs[st.path].items[k]), <<"#", " ">>)

Documents ==
    { p \in FilePaths :
        /\ IsFile(p) /\ fs[p].dec
        /\ endswith(p, S_md)
        /\ basename(p) \notin ignored_files
        /\ \A k \in 1..(Len(split(p, "/")) - 1) : split(p, "/")[k] \notin ignored_dirs }

\* the components of a link's path, taken from the base directory for a
\* target that begins with '/', else from the directory of document p
LinkComps(p, url) ==
    LET lp == split(url, "#")[1]
        pc == split(p, "/")
    IN IF Head(lp) = "/" THEN split(lp, "/")
       ELSE SubSeq(pc, 1, Len(pc) - 1) \o split(lp, "/")

\* a link of document p that is a relative-file link to nothing that exists;
\* the resolved path is normalised before it is looked up
IsBrokenLink(p, url) ==
    /\ IsRelativeFileLink(url)
    /\ LET comps == norm_comps(LinkComps(p, url), <<>>, FALSE) IN
       comps # <<>> /\ ~exists(joinWith(comps, "/"))

\* how often an entry occurs in the report / a target among the links of p
ReportCount(e) == Cardinality({k \in 1..Len(broken_links) : broken_links[k] = e})
LinkCount(p, url) ==
    Cardinality({k \in 1..Len(fs[p].items) :
                    fs[p].items[k].t = "link" /\ fs[p].items[k].url = url})

\* C2: the returned report holds (document path, original target) once for
\* every relative-file link occurrence whose resolved path does not exist,
\* and nothing else.
C2_ReportExact ==
    ck_pc \in {"main", "exit"} =>
        /\ \A p \in Documents : \A k \in 1..Len(fs[p].items) :
              LET item == fs[p].items[k] IN
              (item.t = "link" /\ IsBrokenLink(p, item.url))
                  => ReportCount(<<<<".", "/">> \o p, item.url>>) = LinkCount(p, item.url)
        /\ \A k \in 1..Len(broken_links) :
              LET p == normpath(broken_links[k][1]) IN
              /\ broken_links[k][1] = <<".", "/">> \o p
              /\ p \in Documents
              /\ LinkCount(p, broken_links[k][2]) > 0
              /\ IsBrokenLink(p, broken_links[k][2])

\* C2 witness: a returned report with a broken link of a.md and the broken
\* sibling link of d/b.md, whose rooted link to the same file resolves.
C2_Witness ==
    /\ ck_pc = "main"
    /\ fs[P_b] = File(<<Link(T_see, U_t), Link(T_see, U_root)>>)
    /\ IsFile(P_t)
    /\ \E k \in 1..Len(broken_links) : normpath(broken_links[k][1]) = P_a
    /\ \E k \in 1..Len(broken_links) : broken_links[k] = <<<<".", "/">> \o P_b, U_t>>

\* C8: the exit status is set only after every document was scanned, it is
\* non-zero exactly when the report is non-empty, and an undecodable file
\* does not keep the broken links of the documents from being reported.
C8_ExitSignal ==
    ck_exit # -1 =>
        /\ ck_pc = "exit" /\ ck_stack = <<>> /\ ck_left = {}
        /\ ck_scanned = Documents
        /\ ck_exit \in {0, 1}
        /\ (ck_exit # 0) <=> (broken_links # <<>>)
        /\ \A p \in Documents :
              (\E k \in 1..Len(fs[p].items) :
                   fs[p].items[k].t = "link" /\ IsBrokenLink(p, fs[p].items[k].url))
              => \E k \in 1..Len(broken_links) : normpath(broken_links[k][1]) = p

\* C8 witness: a.md cannot be decoded, and the run still ends with status 1
\* for the broken link of d/b.md.
C8_Witness ==
    /\ ck_pc = "exit" /\ ck_exit = 1
    /\ fs[P_a] = Undecodable(<<>>)
    /\ \E k \in 1..Len(broken_links) : normpath(broken_links[k][1]) = P_b

\* ------------------------------------------------------------------------
\* Properties of gen_toc.py (under SpecToc)
\* ------------------------------------------------------------------------

\* the headings of levels 1 to 3 of the arguments that exist, in argument
\* order and, within a file, in file order
RECURSIVE ShallowHeadings(_)
ShallowHeadings(files) ==
    IF files = <<>> THEN <<>>
    ELSE LET st == os_stat(Head(files))
             hs == IF st.kind = "file" THEN parse_headings(fs[st.path].items) ELSE <<>>
         IN SelectSeq(hs, LAMBDA h : h.level \in 1..3) \o ShallowHeadings(Tail(files))

\* number of leading blanks of a line
RECURSIVE LeadingBlanks(_)
LeadingBlanks(s) == IF s # <<>> /\ Head(s) = " " THEN 1 + LeadingBlanks(Tail(s)) ELSE 0

\* C4: the anchors generated for the headings of one document are pairwise
\* distinct.
C4_AnchorsDistinct ==
    \A i, j \in 1..Len(toc_lines) :
        (i # j /\ toc_lines[i].arg = toc_lines[j].arg)
            => toc_lines[i].anchor # toc_lines[j].anchor

\* C9: every heading with a non-empty title gets a non-empty slug.
C9_SlugNonEmpty ==
    \A i \in 1..Len(toc_lines) :
        toc_lines[i].title # <<>> => toc_lines[i].anchor # <<>>

\* C7: the written table has one line per heading of level 1, 2 or 3 of the
\* files that exist, none for deeper headings, in argument order and heading
\* order, each indented by 2 * (level - 1) blanks; missing files are skipped.
C7_TocLines ==
    toc_pc = "done" =>
        LET hs == ShallowHeadings(toc_files) IN
        /\ Len(OUTFILE) = Len(hs)
        /\ \A k \in 1..Len(hs) :
              /\ LeadingBlanks(OUTFILE[k]) = 2 * (hs[k].level - 1)
              /\ startswith(SubSeq(OUTFILE[k], LeadingBlanks(OUTFILE[k]) + 1, Len(OUTFILE[k])),
                            <<"-", " ", "[">> \o hs[k].title \o <<"]", "(", "#">>)

\* C7 witness: a table written from a missing file followed by a file that
\* holds a level-4 heading, with an indented line in it.
C7_Witness ==
    /\ toc_pc = "done"
    /\ toc_files = <<P_gone, P_t>>
    /\ fs[P_t].items = <<Line(L_h2), Line(L_h4)>>
    /\ Len(OUTFILE) = 1 /\ LeadingBlanks(OUTFILE[1]) = 2

Init == InitRewrite \/ InitCheck \/ InitToc

Next == NextRewrite \/ NextCheck \/ NextToc

Spec == Init /\ [][Next]_vars

====
